---- MODULE Spec2Model ----
(***************************************************************************)
(* Model of the reminder TUI: the key-driven AppState machine of           *)
(* src/src/main.rs and src/src/ui.rs, the SQLite-backed reminder table of  *)
(* src/src/db.rs, and the background notification_worker.                  *)
(*                                                                         *)
(* Text is a sequence of one-character strings, so that length, split,     *)
(* integer parsing and byte-wise comparison are computed as the code       *)
(* computes them.                                                          *)
(***************************************************************************)
EXTENDS Integers, Sequences, FiniteSets, TLC

VARIABLES
    mode,           \* AppState.mode
    reminders,      \* AppState.reminders (cached Vec<Reminder>)
    selected_idx,   \* AppState.selected_idx (0-based, usize)
    input,          \* AppState.input
    input_field,    \* AppState.input_field
    form_fields,    \* AppState.form_fields, indexed 0..2
    error_msg,      \* AppState.error_msg
    running,        \* FALSE once std::process::exit(0) was called
    db_call,        \* store call issued by the latest key event, with its result
    table,          \* rows of the reminders table
    seq,            \* sqlite_sequence value of the AUTOINCREMENT key
    notified_ids,   \* the shared HashSet<i32> behind the mutex
    wpc,            \* position of notification_worker: "sleep" or "loop"
    pending,        \* reminders the worker's for loop has still to visit
    current_time,   \* the worker's current_time local of this cycle
    delivery,       \* outcome of the worker's latest step: of the store open and
                    \* fetch of a cycle, then of each loop iteration
    emitted,        \* number of notifications shown, per reminder id
    time_arg,       \* argument of a stand-alone validate_time_format call
    time_ret        \* its return value: <<>> before the call, <<b>> after it

appVars == <<mode, reminders, selected_idx, input, input_field, form_fields, error_msg>>
dbVars == <<table, seq>>
workerVars == <<notified_ids, wpc, pending, current_time, delivery, emitted>>
validatorVars == <<time_arg, time_ret>>
vars == <<mode, reminders, selected_idx, input, input_field, form_fields, error_msg,
          running, db_call, table, seq, notified_ids, wpc, pending, current_time,
          delivery, emitted, time_arg, time_ret>>

----------------------------------------------------------------------------
(* Bounds *)

\* longest text handed to a stand-alone validate_time_format call
MaxTimeLen == 5

\* largest value the AUTOINCREMENT counter may reach in a run
MaxId == 2

----------------------------------------------------------------------------
(* Text *)

Digit == {"0", "1", "2", "3", "4", "5", "6", "7", "8", "9"}

\* byte value of the characters used (ASCII), for parsing and comparison
Byte(c) ==
    CASE c = "+" -> 43
      [] c = "0" -> 48 [] c = "1" -> 49 [] c = "2" -> 50 [] c = "3" -> 51
      [] c = "4" -> 52 [] c = "5" -> 53 [] c = "6" -> 54 [] c = "7" -> 55
      [] c = "8" -> 56 [] c = "9" -> 57
      [] c = ":" -> 58
      [] c = "a" -> 97 [] c = "b" -> 98 [] c = "d" -> 100
      [] OTHER -> 120

Err == -1

\* the decimal digits of u32::MAX, 4294967295
U32MaxDigits == <<"4", "2", "9", "4", "9", "6", "7", "2", "9", "5">>

\* a value standing for any parsed number of ten significant digits
Huge == 1000000000

RECURSIVE StripZeros(_)
StripZeros(s) == IF s # <<>> /\ Head(s) = "0" THEN StripZeros(Tail(s)) ELSE s

RECURSIVE DigitsLess(_, _)
\* a < b for two digit texts of the same length
DigitsLess(a, b) ==
    IF a = <<>> THEN FALSE
    ELSE IF Head(a) # Head(b) THEN Byte(Head(a)) < Byte(Head(b))
    ELSE DigitsLess(Tail(a), Tail(b))

RECURSIVE DigitsValue(_, _)
DigitsValue(s, acc) ==
    IF s = <<>> THEN acc
    ELSE DigitsValue(Tail(s), acc * 10 + (Byte(Head(s)) - 48))

\* str::parse::<u32>: empty is an error, one leading '+' is accepted, then
\* one or more decimal digits, no overflow of u32; Err stands for Result::Err
ParseU32(s) ==
    IF s = <<>> THEN Err
    ELSE LET body == IF Head(s) = "+" THEN Tail(s) ELSE s
             sig == StripZeros(body)
         IN  IF body = <<>> \/ \E i \in 1..Len(body) : body[i] \notin Digit THEN Err
             ELSE IF Len(sig) > 10 \/ (Len(sig) = 10 /\ DigitsLess(U32MaxDigits, sig))
             THEN Err
             ELSE IF Len(sig) = 10 THEN Huge
             ELSE DigitsValue(sig, 0)

Contains(s, c) == \E i \in 1..Len(s) : s[i] = c

RECURSIVE Split(_, _)
\* str::split(sep).collect(): the pieces between separators, empty ones kept
Split(s, sep) ==
    IF \A i \in 1..Len(s) : s[i] # sep THEN <<s>>
    ELSE LET k == CHOOSE i \in 1..Len(s) :
                     s[i] = sep /\ \A j \in 1..(i - 1) : s[j] # sep
         IN  <<SubSeq(s, 1, k - 1)>> \o Split(SubSeq(s, k + 1, Len(s)), sep)

validate_time_format(time) ==
    IF Len(time) # 5 \/ ~Contains(time, ":") THEN FALSE
    ELSE LET parts == Split(time, ":")
         IN  IF Len(parts) # 2 THEN FALSE
             ELSE LET hour == ParseU32(parts[1])
                      minute == ParseU32(parts[2])
                  IN  IF hour # Err /\ minute # Err
                      THEN hour < 24 /\ minute < 60
                      ELSE FALSE

\* byte-wise comparison of two texts (SQLite BINARY collation): a < b
RECURSIVE TextLess(_, _)
TextLess(a, b) ==
    IF b = <<>> THEN FALSE
    ELSE IF a = <<>> THEN TRUE
    ELSE IF Byte(Head(a)) # Byte(Head(b)) THEN Byte(Head(a)) < Byte(Head(b))
    ELSE TextLess(Tail(a), Tail(b))

IsPrefix(p, s) == Len(p) <= Len(s) /\ SubSeq(s, 1, Len(p)) = p

----------------------------------------------------------------------------
(* Inputs *)

\* texts the user types into the title, description and time field
FieldTexts ==
    [i \in 0..2 |->
        CASE i = 0 -> {<<"a">>}
          [] i = 1 -> {<<"d">>}
          [] i = 2 -> {<<"1", "0", ":", "0", "0">>}]

KeyChars == {"a", "b", "d", "0", "1", ":"}

\* values Local::now().format("%H:%M") takes in a poll cycle
ClockTimes == {<<"1", "0", ":", "0", "0">>, <<"1", "0", ":", "0", "1">>}

\* value Local::now().to_rfc3339() takes in add_reminder during this run
Stamps == {"T1"}

\* characters of the texts handed to a stand-alone validate_time_format call
TimeChars == {"0", "2", "4", "6", ":", "+", "a"}

RECURSIVE TextsUpTo(_)
TextsUpTo(n) ==
    IF n = 0 THEN {<<>>}
    ELSE LET shorter == TextsUpTo(n - 1)
         IN  shorter \cup {Append(t, c) : t \in {u \in shorter : Len(u) = n - 1}, c \in TimeChars}

----------------------------------------------------------------------------
(* db.rs *)

Reminder(id, title, description, time, created_at) ==
    [id |-> id, title |-> title, description |-> description, time |-> time,
     created_at |-> created_at]

Ids(rows) == {r.id : r \in rows}

Max(S) == CHOOSE x \in S : \A y \in S : y <= x

\* INTEGER PRIMARY KEY without AUTOINCREMENT: one more than the largest rowid
\* now in the table
NextRowidOfTable(rows, counter) == Max(Ids(rows) \cup {0}) + 1

\* rowid chosen by INSERT for an INTEGER PRIMARY KEY AUTOINCREMENT column:
\* one more than the largest rowid the table ever held
NextRowid(rows, counter) == Max(Ids(rows) \cup {counter}) + 1

\* the sequences get_all_reminders may return: every row once, ORDER BY time
\* ASC; the order of rows with equal time is left open by the query
get_all_reminders(rows) ==
    {s \in [1..Cardinality(rows) -> rows] :
        /\ \A i, j \in 1..Cardinality(rows) : i # j => s[i] # s[j]
        /\ \A i, j \in 1..Cardinality(rows) : i < j => ~TextLess(s[j].time, s[i].time)}

\* UPDATE without its WHERE clause
update_reminder_all(rows, id, title, description, time) ==
    {Reminder(r.id, title, description, time, r.created_at) : r \in rows}

\* UPDATE ... WHERE id = ?: no row matches an absent id
update_reminder(rows, id, title, description, time) ==
    {IF r.id = id
     THEN Reminder(r.id, title, description, time, r.created_at)
     ELSE r : r \in rows}

\* DELETE without its WHERE clause
delete_reminder_all(rows, id) == {}

\* DELETE ... WHERE id = ?
delete_reminder(rows, id) == {r \in rows : r.id # id}

----------------------------------------------------------------------------
(* ui.rs: AppState *)

\* Option<String>: None is <<>>, Some(m) is <<m>>
None == <<>>
Some(m) == <<m>>
FieldsMsg == "All fields must be filled"
TimeMsg == "Invalid time format. Use HH:MM (e.g., 06:59)"

NoFields == [i \in 0..2 |-> <<>>]

\* Vec::pop in place of Vec::remove
RemoveLast(s, idx) == SubSeq(s, 1, Len(s) - 1)

\* Vec::remove(idx), idx 0-based
RemoveAt(s, idx) == SubSeq(s, 1, idx) \o SubSeq(s, idx + 2, Len(s))

next ==
    IF mode = "List" /\ reminders # <<>>
    THEN selected_idx' = (selected_idx + 1) % Len(reminders)
    ELSE selected_idx' = selected_idx

\* prev without the wrap to the last entry
prevClamped ==
    IF mode = "List" /\ reminders # <<>>
    THEN selected_idx' = IF selected_idx = 0 THEN 0 ELSE selected_idx - 1
    ELSE selected_idx' = selected_idx

prev ==
    IF mode = "List" /\ reminders # <<>>
    THEN selected_idx' = IF selected_idx = 0 THEN Len(reminders) - 1
                         ELSE selected_idx - 1
    ELSE selected_idx' = selected_idx

next_field ==
    IF mode = "Add" \/ mode = "Edit"
    THEN LET ff == [form_fields EXCEPT ![input_field] = input]
             nf == (input_field + 1) % 3
         IN  /\ form_fields' = ff
             /\ input_field' = nf
             /\ input' = ff[nf]
    ELSE UNCHANGED <<form_fields, input_field, input>>

prev_field ==
    IF mode = "Add" \/ mode = "Edit"
    THEN LET ff == [form_fields EXCEPT ![input_field] = input]
             nf == IF input_field = 0 THEN 2 ELSE input_field - 1
         IN  /\ form_fields' = ff
             /\ input_field' = nf
             /\ input' = ff[nf]
    ELSE UNCHANGED <<form_fields, input_field, input>>

----------------------------------------------------------------------------
(* main.rs: run_app dispatches one key event to the handler of the mode *)

WorkerIdle == UNCHANGED <<workerVars, validatorVars>>

\* handle_list_input
ListKeyQ ==
    /\ running /\ mode = "List"
    /\ running' = FALSE
    /\ db_call' = "none"
    /\ UNCHANGED <<appVars, dbVars>> /\ WorkerIdle

ListKeyA ==
    /\ running /\ mode = "List"
    /\ mode' = "Add"
    /\ input' = <<>>
    /\ input_field' = 0
    /\ form_fields' = NoFields
    /\ error_msg' = None
    /\ db_call' = "none"
    /\ UNCHANGED <<reminders, selected_idx, running, dbVars>> /\ WorkerIdle

\* the Edit form opened with the selected reminder's values in the draft
ListKeyEPrefilled ==
    /\ running /\ mode = "List"
    /\ reminders # <<>>
    /\ mode' = "Edit"
    /\ input' = reminders[selected_idx + 1].title
    /\ input_field' = 0
    /\ form_fields' = [i \in 0..2 |->
                         CASE i = 0 -> reminders[selected_idx + 1].title
                           [] i = 1 -> reminders[selected_idx + 1].description
                           [] i = 2 -> reminders[selected_idx + 1].time]
    /\ error_msg' = None
    /\ db_call' = "none"
    /\ UNCHANGED <<reminders, selected_idx, running, dbVars>> /\ WorkerIdle

ListKeyE ==
    /\ running /\ mode = "List"
    /\ reminders # <<>>
    /\ mode' = "Edit"
    /\ input' = <<>>
    /\ input_field' = 0
    /\ form_fields' = NoFields
    /\ error_msg' = None
    /\ db_call' = "none"
    /\ UNCHANGED <<reminders, selected_idx, running, dbVars>> /\ WorkerIdle

\* `d` without the is_empty guard
ListKeyDUnguarded ==
    /\ running /\ mode = "List"
    /\ mode' = "Delete"
    /\ db_call' = "none"
    /\ UNCHANGED <<reminders, selected_idx, input, input_field, form_fields,
                   error_msg, running, dbVars>> /\ WorkerIdle

ListKeyD ==
    /\ running /\ mode = "List"
    /\ reminders # <<>>
    /\ mode' = "Delete"
    /\ db_call' = "none"
    /\ UNCHANGED <<reminders, selected_idx, input, input_field, form_fields,
                   error_msg, running, dbVars>> /\ WorkerIdle

ListKeyUp ==
    /\ running /\ mode = "List"
    /\ prev
    /\ db_call' = "none"
    /\ UNCHANGED <<mode, reminders, input, input_field, form_fields, error_msg,
                   running, dbVars>> /\ WorkerIdle

ListKeyDown ==
    /\ running /\ mode = "List"
    /\ next
    /\ db_call' = "none"
    /\ UNCHANGED <<mode, reminders, input, input_field, form_fields, error_msg,
                   running, dbVars>> /\ WorkerIdle

\* handle_form_input, for Mode::Add and Mode::Edit alike
InForm == running /\ mode \in {"Add", "Edit"}

FormKeyChar(c) ==
    /\ InForm
    /\ \E t \in FieldTexts[input_field] : IsPrefix(Append(input, c), t)
    /\ input' = Append(input, c)
    /\ db_call' = "none"
    /\ UNCHANGED <<mode, reminders, selected_idx, input_field, form_fields,
                   error_msg, running, dbVars>> /\ WorkerIdle

FormKeyBackspace ==
    /\ InForm
    /\ input' = IF input = <<>> THEN <<>> ELSE SubSeq(input, 1, Len(input) - 1)
    /\ db_call' = "none"
    /\ UNCHANGED <<mode, reminders, selected_idx, input_field, form_fields,
                   error_msg, running, dbVars>> /\ WorkerIdle

FormKeyTab ==
    /\ InForm
    /\ next_field
    /\ db_call' = "none"
    /\ UNCHANGED <<mode, reminders, selected_idx, error_msg, running, dbVars>>
    /\ WorkerIdle

FormKeyBackTab ==
    /\ InForm
    /\ prev_field
    /\ db_call' = "none"
    /\ UNCHANGED <<mode, reminders, selected_idx, error_msg, running, dbVars>>
    /\ WorkerIdle

\* Esc that also moves the selection back to the first entry
FormKeyEscResetsSelection ==
    /\ InForm
    /\ mode' = "List"
    /\ selected_idx' = 0
    /\ db_call' = "none"
    /\ UNCHANGED <<reminders, input, input_field, form_fields,
                   error_msg, running, dbVars>> /\ WorkerIdle

FormKeyEsc ==
    /\ InForm
    /\ mode' = "List"
    /\ db_call' = "none"
    /\ UNCHANGED <<reminders, selected_idx, input, input_field, form_fields,
                   error_msg, running, dbVars>> /\ WorkerIdle

\* the fields after `app.form_fields[app.input_field] = app.input.clone()`
Committed == [form_fields EXCEPT ![input_field] = input]

\* the time field left out of the emptiness test
AnyEmptyButTime(ff) == ff[0] = <<>> \/ ff[1] = <<>>

AnyEmpty(ff) == ff[0] = <<>> \/ ff[1] = <<>> \/ ff[2] = <<>>

\* the form is left whether or not add_reminder succeeded
AddReminderLeavesForm(ff) ==
    \/ \E now \in Stamps :
         LET id == NextRowid(table, seq)
             reminder == Reminder(id, ff[0], ff[1], ff[2], now)
         IN  /\ seq < MaxId
             /\ table' = table \cup {reminder}
             /\ seq' = NextRowid(table, seq)
             /\ reminders' = Append(reminders, reminder)
             /\ mode' = "List"
             /\ error_msg' = None
             /\ db_call' = "add_ok"
    \/ /\ db_call' = "add_err"
       /\ mode' = "List"
       /\ error_msg' = None
       /\ UNCHANGED <<table, seq, reminders>>

\* Database::add_reminder, from the Enter branch with is_add
AddReminder(ff) ==
    \/ \E now \in Stamps :
         LET id == NextRowid(table, seq)    \* within i32: `as i32` keeps it
             reminder == Reminder(id, ff[0], ff[1], ff[2], now)
         IN  /\ seq < MaxId
             /\ table' = table \cup {reminder}
             /\ seq' = NextRowid(table, seq)
             /\ reminders' = Append(reminders, reminder)
             /\ mode' = "List"
             /\ error_msg' = None
             /\ db_call' = "add_ok"
    \/ /\ db_call' = "add_err"
       /\ UNCHANGED <<table, seq, reminders, mode, error_msg>>

\* Database::update_reminder, from the Enter branch without is_add
UpdateSelected(ff) ==
    IF selected_idx < Len(reminders)
    THEN LET id == reminders[selected_idx + 1].id
         IN  \/ /\ table' = update_reminder(table, id, ff[0], ff[1], ff[2])
                /\ reminders' = [reminders EXCEPT
                                   ![selected_idx + 1].title = ff[0],
                                   ![selected_idx + 1].description = ff[1],
                                   ![selected_idx + 1].time = ff[2]]
                /\ mode' = "List"
                /\ error_msg' = None
                /\ db_call' = "update_ok"
                /\ UNCHANGED seq
             \/ /\ db_call' = "update_err"
                /\ UNCHANGED <<table, seq, reminders, mode, error_msg>>
    ELSE /\ db_call' = "none"
         /\ UNCHANGED <<table, seq, reminders, mode, error_msg>>

FormKeyEnter ==
    /\ InForm
    /\ form_fields' = Committed
    /\ IF AnyEmpty(Committed)
       THEN /\ error_msg' = Some(FieldsMsg)
            /\ db_call' = "none"
            /\ UNCHANGED <<table, seq, reminders, mode>>
       ELSE IF ~validate_time_format(Committed[2])
       THEN /\ error_msg' = Some(TimeMsg)
            /\ db_call' = "none"
            /\ UNCHANGED <<table, seq, reminders, mode>>
       ELSE IF mode = "Add"
       THEN AddReminder(Committed)
       ELSE UpdateSelected(Committed)
    /\ UNCHANGED <<selected_idx, input, input_field, running>> /\ WorkerIdle

\* the index is left where it was
AfterRemoveIdxKept(idx, len) == idx

\* the selection after Vec::remove, len being the new length
AfterRemoveIdx(idx, len) == IF idx > 0 /\ idx >= len THEN idx - 1 ELSE idx

\* handle_delete_input
DeleteKeyY ==
    /\ running /\ mode = "Delete"
    /\ IF selected_idx < Len(reminders)
       THEN LET id == reminders[selected_idx + 1].id
                rest == RemoveAt(reminders, selected_idx)
            IN  \/ /\ table' = delete_reminder(table, id)
                   /\ reminders' = rest
                   /\ selected_idx' = AfterRemoveIdx(selected_idx, Len(rest))
                   /\ mode' = "List"
                   /\ db_call' = "delete_ok"
                \/ /\ db_call' = "delete_err"
                   /\ UNCHANGED <<table, reminders, selected_idx, mode>>
       ELSE /\ db_call' = "none"
            /\ UNCHANGED <<table, reminders, selected_idx, mode>>
    /\ UNCHANGED <<seq, input, input_field, form_fields, error_msg, running>>
    /\ WorkerIdle

DeleteKeyNo ==
    /\ running /\ mode = "Delete"
    /\ mode' = "List"
    /\ db_call' = "none"
    /\ UNCHANGED <<reminders, selected_idx, input, input_field, form_fields,
                   error_msg, running, dbVars>> /\ WorkerIdle

\* the `_ => {}` arm of the three handlers
KeyIgnored ==
    /\ running
    /\ db_call' = "none"
    /\ UNCHANGED <<appVars, running, dbVars>> /\ WorkerIdle

----------------------------------------------------------------------------
(* main.rs: notification_worker *)

AppIdle == UNCHANGED <<appVars, running, db_call, dbVars, validatorVars>>

NoTime == <<>>

\* one pass of the loop up to the for statement: sleep, Database::new,
\* get_all_reminders, Local::now
\* the worker thread ends when Database::new or get_all_reminders fails
WorkerPollGivesUp ==
    /\ running /\ wpc = "sleep"
    /\ \E open_ok, fetch_ok \in BOOLEAN :
         IF open_ok /\ fetch_ok
         THEN /\ delivery' = "none"
              /\ \E fetched \in get_all_reminders(table), now \in ClockTimes :
                   IF fetched = <<>>
                   THEN UNCHANGED <<wpc, pending, current_time>>
                   ELSE /\ wpc' = "loop"
                        /\ pending' = fetched
                        /\ current_time' = now
         ELSE /\ delivery' = "store_err"
              /\ wpc' = "done"
              /\ UNCHANGED <<pending, current_time>>
    /\ UNCHANGED <<notified_ids, emitted>> /\ AppIdle

WorkerPoll ==
    /\ running /\ wpc = "sleep"
    /\ \E open_ok, fetch_ok \in BOOLEAN :
         IF open_ok /\ fetch_ok
         THEN /\ delivery' = "none"
              /\ \E fetched \in get_all_reminders(table), now \in ClockTimes :
                   IF fetched = <<>>
                   THEN UNCHANGED <<wpc, pending, current_time>>
                   ELSE /\ wpc' = "loop"
                        /\ pending' = fetched
                        /\ current_time' = now
         ELSE /\ delivery' = "store_err"
              /\ UNCHANGED <<wpc, pending, current_time>>
    /\ UNCHANGED <<notified_ids, emitted>> /\ AppIdle

\* the test of notified_ids without its negation
ShouldNotifyInverted(reminder, now, notified) ==
    reminder.time = now /\ reminder.id \in notified

\* the comparison with current_time left out
ShouldNotifyAnyTime(reminder, now, notified) == reminder.id \notin notified

\* a reminder is shown whatever notified_ids holds
ShouldNotifyAlways(reminder, now, notified) == reminder.time = now

\* one flag for the whole set instead of a test of this reminder's id
ShouldNotifyOnce(reminder, now, notified) == reminder.time = now /\ notified = {}

\* the condition of the if in the loop body
ShouldNotify(reminder, now, notified) ==
    reminder.time = now /\ reminder.id \notin notified

\* the id is inserted whether or not show() succeeded
AfterShowAlways(notified, id, shown) == notified \cup {id}

\* the match on the result of Notification::show()
AfterShow(notified, id, shown) == IF shown THEN notified \cup {id} ELSE notified

\* one iteration of `for reminder in reminders`, under the mutex
WorkerVisit ==
    /\ running /\ wpc = "loop"
    /\ LET reminder == Head(pending)
       IN  IF ShouldNotify(reminder, current_time, notified_ids)
           THEN \E shown \in BOOLEAN :
                  /\ notified_ids' = AfterShow(notified_ids, reminder.id, shown)
                  /\ emitted' = IF shown
                                THEN [emitted EXCEPT ![reminder.id] = @ + 1]
                                ELSE emitted
                  /\ delivery' = IF shown THEN "ok" ELSE "failed"
           ELSE /\ delivery' = "none"
                /\ UNCHANGED <<notified_ids, emitted>>
    /\ pending' = Tail(pending)
    /\ IF Tail(pending) = <<>>
       THEN wpc' = "sleep" /\ current_time' = NoTime
       ELSE UNCHANGED <<wpc, current_time>>
    /\ AppIdle

----------------------------------------------------------------------------
(* a stand-alone call of validate_time_format *)

ValidateCall ==
    /\ time_ret = <<>>
    /\ time_ret' = <<validate_time_format(time_arg)>>
    /\ UNCHANGED <<appVars, running, db_call, dbVars, workerVars, time_arg>>

----------------------------------------------------------------------------
(* Specifications *)

T1000 == <<"1", "0", ":", "0", "0">>
T1001 == <<"1", "0", ":", "0", "1">>

\* contents of reminders.db left by earlier runs: rows and sqlite_sequence
InitDbs ==
    { [rows |-> {}, counter |-> 0],
      [rows |-> {Reminder(1, <<"b">>, <<"e">>, T1001, "T0")}, counter |-> 1] }

AppInit ==
    /\ mode = "List"
    /\ selected_idx = 0
    /\ input = <<>>
    /\ input_field = 0
    /\ form_fields = NoFields
    /\ error_msg = None
    /\ running = TRUE
    /\ db_call = "none"

WorkerInit ==
    /\ notified_ids = {}
    /\ wpc = "sleep"
    /\ pending = <<>>
    /\ current_time = NoTime
    /\ delivery = "none"
    /\ emitted = [i \in 1..MaxId |-> 0]

Init ==
    /\ \E db \in InitDbs :
         /\ table = db.rows
         /\ seq = db.counter
         /\ reminders \in get_all_reminders(db.rows)
    /\ AppInit
    /\ WorkerInit
    /\ time_arg = <<>>
    /\ time_ret = <<>>

\* the UI thread alone, every key of every mode; the worker thread never
\* writes AppState or the table, so it is left unscheduled here
UiNext ==
    \/ ListKeyQ \/ ListKeyA \/ ListKeyE \/ ListKeyD \/ ListKeyUp \/ ListKeyDown
    \/ \E c \in KeyChars : FormKeyChar(c)
    \/ FormKeyBackspace \/ FormKeyTab \/ FormKeyBackTab \/ FormKeyEsc
    \/ FormKeyEnter
    \/ DeleteKeyY \/ DeleteKeyNo
    \/ KeyIgnored

UiSpec == Init /\ [][UiNext]_vars

\* both threads; the user fills a form field by field and submits it when the
\* last field is typed, so every add, update and delete (succeeding or
\* failing) interleaves with every step of the worker
OrderlyTab == FormKeyTab /\ input # <<>> /\ input_field < 2
OrderlyEnter == FormKeyEnter /\ input_field = 2 /\ input \in FieldTexts[2]

WorkerNext ==
    \/ ListKeyA \/ ListKeyE \/ ListKeyD \/ ListKeyDown
    \/ \E c \in KeyChars : FormKeyChar(c)
    \/ OrderlyTab
    \/ OrderlyEnter
    \/ DeleteKeyY
    \/ WorkerPoll \/ WorkerVisit

WorkerSpec == Init /\ [][WorkerNext]_vars

\* a cycle whose store open and fetch succeed while the clock reads t
GoodPoll(t) == WorkerPoll /\ wpc' = "loop" /\ current_time' = t

\* a loop iteration whose Notification::show() succeeds
ShownOk == WorkerVisit /\ delivery' = "ok"

\* both threads, the user adding and deleting reminders while the worker polls
NotifyNext ==
    \/ ListKeyA \/ ListKeyD
    \/ \E c \in KeyChars : FormKeyChar(c)
    \/ OrderlyTab
    \/ OrderlyEnter
    \/ DeleteKeyY
    \/ WorkerPoll \/ WorkerVisit

NotifySpec == Init /\ [][NotifyNext]_vars

\* NotifySpec with a worker thread that is scheduled (each loop iteration is
\* eventually run), a store that is usable again and again at each minute the
\* clock takes, and a notification sink that does not fail for ever
NotifyFairSpec ==
    /\ NotifySpec
    /\ WF_vars(WorkerVisit)
    /\ \A t \in ClockTimes : SF_vars(GoodPoll(t))
    /\ SF_vars(ShownOk)

ValidatorInit ==
    /\ table = {} /\ seq = 0 /\ reminders = <<>>
    /\ AppInit
    /\ WorkerInit
    /\ time_arg \in TextsUpTo(MaxTimeLen)
    /\ time_ret = <<>>

ValidatorNext == ValidateCall

ValidatorSpec == ValidatorInit /\ [][ValidatorNext]_vars

----------------------------------------------------------------------------
(* Properties *)

RowOf(id) == CHOOSE r \in table : r.id = id

\* C1: for every reminder id at most one notification is ever shown, and the
\* ids that were shown one are exactly those in notified_ids, whatever the
\* clock reads in later cycles and whatever the UI thread adds, edits or
\* deletes in between.
C1_AtMostOneNotification ==
    \A id \in DOMAIN emitted :
        /\ emitted[id] <= 1
        /\ emitted[id] = 1 <=> id \in notified_ids

\* a later cycle whose clock matches reminder 1 again has visited it, after it
\* was notified, and has shown nothing; reminder 2 is still to be visited
C1_Witness ==
    /\ wpc = "loop"
    /\ Len(pending) = 1 /\ Head(pending).id = 2
    /\ 1 \in notified_ids /\ emitted[1] = 1
    /\ 1 \in Ids(table) /\ RowOf(1).time = current_time
    /\ delivery = "none"

\* the texts of the form HH:MM: two digits, a colon, two digits, hour at most
\* 23 and minute at most 59
IsHHMM(t) ==
    /\ Len(t) = 5
    /\ t[1] \in Digit /\ t[2] \in Digit /\ t[3] = ":" /\ t[4] \in Digit /\ t[5] \in Digit
    /\ (Byte(t[1]) - 48) * 10 + (Byte(t[2]) - 48) <= 23
    /\ (Byte(t[4]) - 48) * 10 + (Byte(t[5]) - 48) <= 59

\* C2: validate_time_format returns true for exactly the texts of the form
\* HH:MM with hour in 0..23 and minute in 0..59, and false for every other
\* text.
C2_ValidateTimeExact ==
    time_ret # <<>> => (time_ret[1] = IsHHMM(time_arg))

\* C3: selected_idx is in [0, len(reminders)) whenever the cached list is
\* non-empty, and is 0 whenever it is empty, after any sequence of key events
\* with store calls succeeding or failing.
C3_SelectedIdxInRange ==
    /\ reminders # <<>> => selected_idx \in 0..(Len(reminders) - 1)
    /\ reminders = <<>> => selected_idx = 0

\* both reminders of a two-entry list have been deleted, the second delete
\* leaving the list empty
C3_Witness ==
    /\ db_call = "delete_ok"
    /\ mode = "List"
    /\ reminders = <<>>
    /\ selected_idx = 0
    /\ seq = 2

\* the draft as it stands once the input buffer is written to the active field
Draft == [i \in 0..2 |-> IF i = input_field THEN input ELSE form_fields[i]]

NothingStored ==
    /\ db_call' = "none"
    /\ mode' = mode
    /\ reminders' = reminders
    /\ table' = table
    /\ seq' = seq

\* C4: Enter in Add or Edit with an empty draft field sets error_msg to "All
\* fields must be filled"; with three non-empty fields and a time that fails
\* validate_time_format it sets error_msg to the invalid-time message; in both
\* cases no store call is made and mode, cached list and table are unchanged.
C4_InvalidDraftRejected ==
    [][ FormKeyEnter =>
          /\ (\E i \in 0..2 : Draft[i] = <<>>)
               => error_msg' = Some(FieldsMsg) /\ NothingStored
          /\ ((\A i \in 0..2 : Draft[i] # <<>>) /\ ~validate_time_format(Draft[2]))
               => error_msg' = Some(TimeMsg) /\ NothingStored
      ]_vars

\* an Edit form with three non-empty fields was submitted with a time that
\* fails validation
C4_Witness ==
    /\ mode = "Edit"
    /\ error_msg = Some(TimeMsg)
    /\ db_call = "none"
    /\ form_fields[input_field] = input
    /\ \A i \in 0..2 : form_fields[i] # <<>>
    /\ ~validate_time_format(form_fields[2])

\* C5: a successful submit in Edit overwrites title, description and time of
\* the reminder selected when `e` was pressed, in the table and in the cache,
\* and returns to List; every other row and cache entry, the reminder's id
\* and created_at, and selected_idx are unchanged. The selection cannot move
\* while the mode is Edit.
C5_EditOverwritesSelected ==
    [][ /\ (mode = "Edit" /\ mode' = "Edit")
             => selected_idx' = selected_idx /\ reminders' = reminders
        /\ (FormKeyEnter /\ db_call' = "update_ok") =>
             LET old == reminders[selected_idx + 1]
                 new == Reminder(old.id, Draft[0], Draft[1], Draft[2], old.created_at)
             IN  /\ mode = "Edit" /\ mode' = "List"
                 /\ selected_idx' = selected_idx
                 /\ Len(reminders') = Len(reminders)
                 /\ reminders'[selected_idx + 1] = new
                 /\ \A i \in 1..Len(reminders) :
                        i # selected_idx + 1 => reminders'[i] = reminders[i]
                 /\ old \in table
                 /\ table' = (table \ {old}) \cup {new}
                 /\ Cardinality(table') = Cardinality(table)
      ]_vars

\* the reminder left by an earlier run was edited while a second one exists:
\* it carries the typed fields and its former id and created_at
C5_Witness ==
    /\ db_call = "update_ok"
    /\ mode = "List"
    /\ Len(reminders) = 2
    /\ reminders[selected_idx + 1] = Reminder(1, <<"a">>, <<"d">>, T1000, "T0")
    /\ Reminder(1, <<"a">>, <<"d">>, T1000, "T0") \in table

\* C6: every successful add assigns an id greater than every id assigned
\* before it (seq bounds them all: it never decreases and no row's id exceeds
\* it), so ids of deleted reminders are never reused; a list taken right
\* after the add holds exactly one record with that id, carrying the given
\* title, description and time.
C6_FreshIdOnAdd ==
    [][ /\ seq' >= seq
        /\ \A id \in Ids(table') : id <= seq'
        /\ (FormKeyEnter /\ db_call' = "add_ok") =>
             \E r \in table' :
                /\ r.id > seq
                /\ \A id \in Ids(table) : r.id > id
                /\ table' = table \cup {r}
                /\ r.title = Draft[0] /\ r.description = Draft[1] /\ r.time = Draft[2]
                /\ \A listed \in get_all_reminders(table') :
                      Cardinality({i \in 1..Len(listed) : listed[i].id = r.id}) = 1
                /\ \A listed \in get_all_reminders(table') :
                      \A i \in 1..Len(listed) : listed[i].id = r.id => listed[i] = r
      ]_vars

\* an add made after reminder 1 was deleted: the new reminder got id 2
C6_Witness ==
    /\ db_call = "add_ok"
    /\ Ids(table) = {2}
    /\ seq = 2

\* C7: `y` in Delete with a successful store delete removes exactly the
\* selected reminder from the table and from the cache and returns to List;
\* selected_idx is decremented when the deleted entry was at the last index
\* and selected_idx > 0, and is unchanged otherwise.
C7_DeleteRemovesSelected ==
    [][ (DeleteKeyY /\ db_call' = "delete_ok") =>
          LET old == reminders[selected_idx + 1]
          IN  /\ mode' = "List"
              /\ old \in table
              /\ table' = table \ {old}
              /\ Len(reminders') = Len(reminders) - 1
              /\ \A i \in 1..Len(reminders') :
                    reminders'[i] = IF i <= selected_idx THEN reminders[i]
                                    ELSE reminders[i + 1]
              /\ selected_idx' =
                    IF selected_idx = Len(reminders) - 1 /\ selected_idx > 0
                    THEN selected_idx - 1 ELSE selected_idx
      ]_vars

\* the second of two reminders was deleted at the last index: the selection
\* moved from 1 to 0 and reminder 1 is what remains
C7_Witness ==
    /\ db_call = "delete_ok"
    /\ mode = "List"
    /\ seq = 2
    /\ Len(reminders) = 1 /\ reminders[1].id = 1
    /\ table = {reminders[1]}
    /\ selected_idx = 0

UpDownFrame ==
    /\ mode' = mode
    /\ reminders' = reminders
    /\ table' = table
    /\ seq' = seq

\* C8: in List with a non-empty cached list, Up from index 0 selects len-1 and
\* otherwise decrements, Down from len-1 selects 0 and otherwise increments;
\* with an empty list both change nothing; neither changes mode, cached list
\* or table.
C8_UpDownWrap ==
    [][ /\ ListKeyUp =>
             /\ UpDownFrame
             /\ selected_idx' =
                  IF reminders = <<>> THEN selected_idx
                  ELSE IF selected_idx = 0 THEN Len(reminders) - 1
                  ELSE selected_idx - 1
        /\ ListKeyDown =>
             /\ UpDownFrame
             /\ selected_idx' =
                  IF reminders = <<>> THEN selected_idx
                  ELSE IF selected_idx = Len(reminders) - 1 THEN 0
                  ELSE selected_idx + 1
      ]_vars

\* the last of two entries is selected after an Up or Down key
C8_Witness ==
    /\ mode = "List"
    /\ db_call = "none"
    /\ Len(reminders) = 2
    /\ selected_idx = 1
    /\ form_fields = NoFields /\ input = <<>>

\* C9 as stated: deduplication is per time text; when two distinct reminders
\* in the table have the same time, a notification is shown only for the first
\* of them: none is shown for a reminder while another row with the same time
\* has already been notified.
C9_OnlyFirstOfSameTimeFires ==
    [][ (WorkerVisit /\ emitted' # emitted) =>
          \A r \in table :
             (r.id # Head(pending).id /\ r.time = Head(pending).time)
                => emitted[r.id] = 0
      ]_vars

\* C9 amended: deduplication is per reminder id; a visited reminder is skipped
\* only if its time differs from the current HH:MM or its own id is in
\* notified_ids, and a notification shown for it marks its id and no other.
C9_DedupIsPerId ==
    [][ WorkerVisit =>
          LET r == Head(pending)
          IN  /\ delivery' = "none" <=> (r.time # current_time \/ r.id \in notified_ids)
              /\ emitted' # emitted =>
                    /\ notified_ids' = notified_ids \cup {r.id}
                    /\ emitted' = [emitted EXCEPT ![r.id] = emitted[r.id] + 1]
      ]_vars

\* two distinct reminders added in this run with the same time have both been
\* notified
C9_Witness ==
    /\ delivery = "ok"
    /\ \E r1, r2 \in table :
          /\ r1.id # r2.id
          /\ r1.time = r2.time
          /\ r1.created_at = "T1" /\ r2.created_at = "T1"
          /\ {r1.id, r2.id} \subseteq notified_ids
          /\ emitted[r1.id] = 1 /\ emitted[r2.id] = 1

\* C10: a failed delivery leaves the id out of notified_ids and shows nothing;
\* the worker goes on with the remaining reminders of the cycle and then with
\* the next cycle; every visited reminder whose time matches and whose id is
\* not in notified_ids is attempted, so the failed one is attempted again.
C10_FailedDeliveryRetried ==
    [][ WorkerVisit =>
          LET r == Head(pending)
          IN  /\ delivery' = "failed" =>
                    /\ notified_ids' = notified_ids
                    /\ r.id \notin notified_ids'
                    /\ emitted' = emitted
                    /\ running'
              /\ pending' = Tail(pending)
              /\ pending' # <<>> => wpc' = "loop" /\ current_time' = current_time
              /\ pending' = <<>> => wpc' = "sleep"
              /\ (r.time = current_time /\ r.id \notin notified_ids)
                    => delivery' \in {"ok", "failed"}
      ]_vars

\* delivery failed for one matching reminder and the next matching reminder of
\* the same cycle is about to be attempted
C10_Witness ==
    /\ delivery = "failed"
    /\ wpc = "loop"
    /\ pending # <<>>
    /\ Head(pending).time = current_time
    /\ Head(pending).id \notin notified_ids
    /\ \E r \in table :
          r.id # Head(pending).id /\ r.time = current_time /\ r.id \notin notified_ids

\* C11: the cached list is sorted ascending by time, as the sequences
\* get_all_reminders returns are.
C11_CacheSortedByTime ==
    \A i, j \in 1..Len(reminders) :
        i < j => ~TextLess(reminders[j].time, reminders[i].time)

StoreCallNotTaken ==
    /\ mode' = mode
    /\ reminders' = reminders
    /\ selected_idx' = selected_idx
    /\ table' = table
    /\ seq' = seq

\* C12: when the store call of a key event fails (add or update on Enter,
\* delete on `y`), the mode stays Add, Edit or Delete respectively and the
\* cached list, selected_idx and the table are unchanged.
C12_FailedStoreCallNotTaken ==
    [][ /\ (FormKeyEnter /\ db_call' = "add_err")
             => mode = "Add" /\ StoreCallNotTaken
        /\ (FormKeyEnter /\ db_call' = "update_err")
             => mode = "Edit" /\ StoreCallNotTaken
        /\ (DeleteKeyY /\ db_call' = "delete_err")
             => mode = "Delete" /\ StoreCallNotTaken
      ]_vars

\* an add of a complete, valid draft failed: the form is still open and the
\* table and the cache hold what they held
C12_Witness ==
    /\ db_call = "add_err"
    /\ mode = "Add"
    /\ \A i \in 0..2 : form_fields[i] # <<>>
    /\ validate_time_format(form_fields[2])
    /\ Len(reminders) = 1
    /\ table = {reminders[1]}

Stored(id, t) == \E r \in table : r.id = id /\ r.time = t

\* C13: a loop iteration that visits a reminder whose time equals the current
\* HH:MM and whose id is not in notified_ids, and whose delivery succeeds,
\* shows it once and inserts its id; and, with a scheduled worker and cycles
\* with a usable store, each clock time and a working sink recurring, a
\* reminder that stays in the table with time t is eventually notified,
\* whatever the UI thread does meanwhile.
C13_EventuallyNotified ==
    /\ [][ (WorkerVisit /\ delivery' = "ok") =>
             LET r == Head(pending)
             IN  /\ r.time = current_time
                 /\ r.id \notin notified_ids
                 /\ r.id \in notified_ids'
                 /\ emitted'[r.id] = emitted[r.id] + 1
         ]_vars
    /\ \A id \in 1..MaxId : \A t \in ClockTimes :
          (Stored(id, t) /\ id \notin notified_ids)
             ~> (id \in notified_ids \/ ~Stored(id, t))

\* reminder 2, added in this run, has been notified and is still in the table
\* while the user is asked to confirm a deletion
C13_Witness ==
    /\ 2 \in notified_ids
    /\ emitted[2] = 1
    /\ Stored(2, T1000)
    /\ mode = "Delete"

\* C14: Escape in Add or Edit, and `n` or Escape in Delete, set the mode to
\* List without a store call and leave the table, the cached list and
\* selected_idx unchanged, whatever draft had been typed.
C14_CancelMutatesNothing ==
    [][ (FormKeyEsc \/ DeleteKeyNo) =>
          /\ mode' = "List"
          /\ db_call' = "none"
          /\ table' = table
          /\ seq' = seq
          /\ reminders' = reminders
          /\ selected_idx' = selected_idx
      ]_vars

\* back in List with a complete, valid draft left in the form although no add
\* ever succeeded: the form was left with Escape
C14_Witness ==
    /\ mode = "List"
    /\ db_call = "none"
    /\ \A i \in 0..2 : form_fields[i] # <<>>
    /\ validate_time_format(form_fields[2])
    /\ seq = 0
    /\ table = {}
    /\ reminders = <<>>

\* C15: every transition from List into Add or Edit leaves the three draft
\* fields and the input buffer empty, the active field at 0 and error_msg
\* absent, whatever an earlier form session left behind and whatever the
\* selected reminder holds.
C15_FormStartsBlank ==
    [][ (mode = "List" /\ mode' \in {"Add", "Edit"}) =>
          /\ form_fields' = NoFields
          /\ input' = <<>>
          /\ input_field' = 0
          /\ error_msg' = None
      ]_vars

\* a blank Edit form opened on a reminder added in this run, whose add left a
\* complete draft behind
C15_Witness ==
    /\ mode = "Edit"
    /\ form_fields = NoFields
    /\ input = <<>>
    /\ input_field = 0
    /\ error_msg = None
    /\ db_call = "none"
    /\ selected_idx < Len(reminders)
    /\ reminders[selected_idx + 1].created_at = "T1"
    /\ reminders[selected_idx + 1].title = <<"a">>

\* C16: after Enter in Add or Edit with a draft that passes validation and a
\* store call that fails, error_msg is absent, whatever happened earlier in
\* the form session.
C16_StoreFailureShowsNoError ==
    [][ (FormKeyEnter /\ db_call' \in {"add_err", "update_err"})
           => error_msg' = None
      ]_vars

\* C17: in mode Edit or Delete the cached list is non-empty and selected_idx
\* points at an entry of it; hence Enter in Edit with a valid draft and `y` in
\* Delete always issue their store call.
C17_EditDeleteHaveTarget ==
    /\ [](mode \in {"Edit", "Delete"}
            => reminders # <<>> /\ selected_idx \in 0..(Len(reminders) - 1))
    /\ [][ /\ (FormKeyEnter /\ mode = "Edit"
                 /\ (\A i \in 0..2 : Draft[i] # <<>>)
                 /\ validate_time_format(Draft[2]))
                 => db_call' \in {"update_ok", "update_err"}
           /\ DeleteKeyY => db_call' \in {"delete_ok", "delete_err"}
         ]_vars

\* `y` was pressed on the only entry of the list and the store call was
\* issued (and failed)
C17_Witness ==
    /\ mode = "Delete"
    /\ db_call = "delete_err"
    /\ Len(reminders) = 1
    /\ selected_idx = 0

Record4(r) == <<r.id, r.title, r.description, r.time>>

\* C19: with the UI thread as the only writer of the table, the cached list
\* holds no id twice and its (id, title, description, time) records are
\* exactly those of the table; every id handed to update_reminder or
\* delete_reminder is the id of a row.
C19_CacheCoherent ==
    /\ [](/\ \A i, j \in 1..Len(reminders) :
                i # j => reminders[i].id # reminders[j].id
          /\ {Record4(reminders[i]) : i \in 1..Len(reminders)}
                = {Record4(r) : r \in table})
    /\ [][ /\ (FormKeyEnter /\ db_call' \in {"update_ok", "update_err"})
                => reminders[selected_idx + 1].id \in Ids(table)
           /\ (DeleteKeyY /\ db_call' \in {"delete_ok", "delete_err"})
                => reminders[selected_idx + 1].id \in Ids(table)
         ]_vars

\* two reminders, one of them edited and then the other deleted from the
\* second place of the list
C19_Witness ==
    /\ db_call = "delete_ok"
    /\ Len(reminders) = 1
    /\ reminders[1] = Reminder(1, <<"a">>, <<"d">>, T1000, "T0")
    /\ table = {reminders[1]}
    /\ seq = 2

\* C18: the worker shows a notification only for a reminder of the list it
\* fetched in the current cycle, which is the table as it was at the fetch,
\* and only if the reminder's time equals the cycle's current HH:MM; so a row
\* deleted before the fetch, a draft that was never stored and a reminder with
\* another time are not shown in that cycle. The worker writes neither the
\* table nor AppState.
C18_NotifiesOnlyFetchedMatching ==
    /\ [](wpc = "sleep" => pending = <<>>)
    /\ [][ /\ (WorkerPoll /\ wpc' = "loop")
                => pending' \in get_all_reminders(table) /\ current_time' \in ClockTimes
           /\ WorkerVisit =>
                /\ pending' = Tail(pending)
                /\ emitted' # emitted =>
                      /\ Head(pending).time = current_time
                      /\ \A id \in DOMAIN emitted :
                            id # Head(pending).id => emitted'[id] = emitted[id]
           /\ emitted' # emitted => WorkerVisit
           /\ (WorkerPoll \/ WorkerVisit)
                => UNCHANGED <<appVars, running, db_call, table, seq>>
         ]_vars

\* reminder 1 was deleted and never notified; the running cycle's list holds
\* reminder 2 alone and nothing was attempted in it so far
C18_Witness ==
    /\ wpc = "loop"
    /\ Len(pending) = 1 /\ Head(pending).id = 2
    /\ delivery = "none"
    /\ db_call = "delete_ok"
    /\ Ids(table) = {2}
    /\ 1 \notin notified_ids
    /\ current_time = T1001

\* C20: a cycle whose store open or fetch fails shows nothing and leaves
\* notified_ids unchanged, and the worker goes on to the next cycle; whatever
\* fails, the worker is always able to take its next step, and notified_ids
\* (and so its lock) is used by the worker's loop iterations alone.
C20_WorkerNeverStops ==
    /\ [](/\ wpc \in {"sleep", "loop"}
          /\ wpc = "loop" => pending # <<>>
          /\ running => ENABLED (WorkerPoll \/ WorkerVisit))
    /\ [][ /\ (WorkerPoll /\ delivery' = "store_err") =>
                /\ notified_ids' = notified_ids
                /\ emitted' = emitted
                /\ wpc' = "sleep"
                /\ pending' = <<>>
           /\ notified_ids' # notified_ids => WorkerVisit
         ]_vars

\* a cycle failed on the store after an earlier cycle had a failed delivery
\* or a notification: the worker is asleep, ready for the next cycle
C20_Witness ==
    /\ delivery = "store_err"
    /\ wpc = "sleep"
    /\ notified_ids # {}
    /\ table # {}
    /\ mode = "Delete"

====
